---- MODULE Spec2Model ----
(***************************************************************************)
(* State-machine model of the EncryptedBidding contract                    *)
(* (src/deploy/deploy_EncryptedBidding.ts, lines 21-198) together with the *)
(* part of the FHE coprocessor it calls: the ciphertext store (handle ->   *)
(* ciphertext) and the access-control list of persistent decryption        *)
(* grants.  A ciphertext handle is an index into the store; handle 0 is    *)
(* the uninitialised euint32.                                              *)
(* The second part models the web page of the ledger                       *)
(* (src/ui/src/pages/Index.tsx): the hook useBidding (organizer check,     *)
(* submitBid and findLowestBid calls) and the component Index (its state   *)
(* and its handlers).  An asynchronous function is a closure that keeps    *)
(* the values of the render that created it.                               *)
(***************************************************************************)
EXTENDS Integers, Sequences, FiniteSets, TLC

(* ---------------------------- bounds ----------------------------------- *)
MaxPrice  == 1      \* plaintext bid prices are 0..MaxPrice
MaxTime   == 2      \* block timestamps are 1..MaxTime
MaxEvents == 3      \* at most MaxEvents successful transactions (log length)
MaxDeployEvents == 2 \* the same, in the specification that starts undeployed
MaxPolls  == 2      \* at most MaxPolls firings of the organizer check's retry timer
MaxCalls  == 3      \* at most MaxCalls calls of the hook's submitBid / findLowestBid
MaxPageEvents == 3  \* successful transactions sent from the page
MaxDecryptEvents == 2 \* the same, in the specification of the decrypt handlers

(* --------------------------- principals -------------------------------- *)
ZeroAddress == "0x0"
This        == "this"                      \* address(this), the ledger itself
Deployer    == "org"                       \* deployer, passed as _organizer
Accounts    == {"org", "alice", "bob"}     \* externally owned accounts
Prices      == 0..MaxPrice

NullHandle  == 0                           \* euint32.wrap(0)
NoLedger    == "none"                      \* no contract has been created
Undefined   == "undefined"                 \* no connected address
None        == <<>>                        \* null / undefined / nothing thrown

VARIABLES
    organizer,              \* address public organizer
    _bids,                  \* mapping(address => Bid)
    _bidders,               \* address[]
    _lowestBid,             \* euint32 (handle)
    _lowestBidder,          \* address
    _lowestBidCalculated,   \* bool
    _zeroEuint32,           \* euint32 (handle)
    cts,                    \* coprocessor: handle -> [kind, val]
    acl,                    \* coprocessor: persistent grants <<handle, account>>
    events,                 \* the contract's event log
    now,                    \* block.timestamp
    lastCall,               \* the most recent call and its outcome
    submitted,              \* per account, the price of its last successful submitBid
    constructedWith,        \* the constructor argument of the ledger, or NoLedger
    \* useBidding
    address,                \* useAccount().address, or Undefined
    ethersProvider,         \* useState: TRUE when a provider object is set
    isOrganizer,            \* useState(false)
    checks,                 \* checkOrganizer closures awaiting contract.organizer()
    timers,                 \* checkOrganizer closures waiting in setTimeout(.., 1000)
    polls,                  \* number of retry timers that have fired
    mounted,                \* the component is mounted
    setBy,                  \* address held by the closure that last set isOrganizer
    lastPoll,               \* address held by the closure whose timer fired last
    isLoading,              \* useState(false)
    message,                \* useState(undefined)
    call,                   \* the current submitBid / findLowestBid call of the hook
    calls,                  \* number of hook calls made
    \* Index
    lowestBid,              \* useState(null): {encryptedPrice, exists}
    decryptedLowest,        \* useState(null)
    bids,                   \* useState([]): the displayed bids
    pageCall                \* the most recent handler run and what it did

checkVars == <<address, ethersProvider, isOrganizer, checks, timers, polls,
               mounted, setBy, lastPoll>>

callVars == <<isLoading, message, call, calls>>

pageVars == <<lowestBid, decryptedLowest, bids, pageCall>>

ui == <<checkVars, callVars, pageVars>>

vars == <<organizer, _bids, _bidders, _lowestBid, _lowestBidder,
          _lowestBidCalculated, _zeroEuint32, cts, acl, events, now,
          lastCall, submitted, constructedWith, ui>>

ledger == <<organizer, _bids, _bidders, _lowestBid, _lowestBidder,
            _lowestBidCalculated, _zeroEuint32, cts, acl, events,
            constructedWith>>

chain == <<ledger, now, lastCall, submitted>>

(* ------------------------------ Bid ------------------------------------ *)
NoBid == [encryptedPrice |-> NullHandle, bidder |-> ZeroAddress,
          timestamp |-> 0, exists |-> FALSE]

(* ---------------------- FHE library / coprocessor ---------------------- *)
\* a transaction's view of the coprocessor: the store, the persistent
\* grants, the transient grants of this transaction, and whether every
\* operation so far was permitted
Fhe(c, a, t, k) == [cts |-> c, acl |-> a, tr |-> t, ok |-> k]

NewHandle(f) == Len(f.cts) + 1

IsAllowed(f, h, who) == <<h, who>> \in f.acl \/ (who = This /\ h \in f.tr)

\* store a computed ciphertext; the calling contract gets a transient grant
FheStore(f, kind, val, permitted) ==
    [f EXCEPT !.cts = Append(f.cts, [kind |-> kind, val |-> val]),
              !.tr  = f.tr \cup {NewHandle(f)},
              !.ok  = f.ok /\ permitted]

\* FHE.asEuint32(v): trivial encryption
FheAsEuint32(f, v) == FheStore(f, "trivial", v, TRUE)

\* variant: the handle is used without verifying its proof
FheVerifyNone(proofOK) == TRUE

\* the input verifier's check of (handle, proof) inside FHE.fromExternal
FheVerify(proofOK) == proofOK

\* FHE.fromExternal(handle, proof), for an input that passes verification
FheFromExternal(f, price) == FheStore(f, "input", price, TRUE)

\* FHE.lt(a, b): encrypted a < b (1 = true, 0 = false)
FheLt(f, a, b) ==
    FheStore(f, "lt", IF f.cts[a].val < f.cts[b].val THEN 1 ELSE 0,
             IsAllowed(f, a, This) /\ IsAllowed(f, b, This))

\* FHE.select(c, a, b): encrypted c ? a : b
FheSelect(f, c, a, b) ==
    FheStore(f, "select", IF f.cts[c].val = 1 THEN f.cts[a].val ELSE f.cts[b].val,
             IsAllowed(f, c, This) /\ IsAllowed(f, a, This) /\ IsAllowed(f, b, This))

\* FHE.allow(h, who): persistent grant, needs the caller to be allowed on h
FheAllow(f, h, who) ==
    [f EXCEPT !.acl = f.acl \cup {<<h, who>>},
              !.ok  = f.ok /\ IsAllowed(f, h, This)]

\* FHE.allowThis(h)
FheAllowThis(f, h) == FheAllow(f, h, This)

\* user decryption by the decryption service: the user and the contract
\* must both hold a persistent grant on the handle
DecryptWith(c, a, h, who) ==
    IF <<h, who>> \in a /\ <<h, This>> \in a
    THEN c[h].val ELSE "rejected"

UserDecrypt(h, who) == DecryptWith(cts, acl, h, who)

Grantees(h) == {who \in Accounts \cup {This, ZeroAddress} : <<h, who>> \in acl}

(* ------------------------------ events --------------------------------- *)
\* variant: the notification carries no submission time
BidSubmittedNoTime(bidder, ts) ==
    [name |-> "BidSubmitted", who |-> bidder, timestamp |-> 0]

BidSubmitted(bidder, ts) ==
    [name |-> "BidSubmitted", who |-> bidder, timestamp |-> ts]

LowestBidCalculated(lowestBidder, ts) ==
    [name |-> "LowestBidCalculated", who |-> lowestBidder, timestamp |-> ts]

\* a call: the operation, whether its input proof is authentic (TRUE for
\* calls without one) and the revert reason ("none" on success)
Call(op, valid, err) == [op |-> op, valid |-> valid, err |-> err]

(* ---------------------------- constructor ------------------------------ *)
\* variant: the organizer is not checked
ConstructorRequireNone(_organizer) == TRUE

ConstructorRequire(_organizer) == _organizer # ZeroAddress

\* deployment of the contract with constructor argument _organizer
Constructor(_organizer) ==
    /\ constructedWith = NoLedger
    /\ IF ~ConstructorRequire(_organizer)
       THEN /\ lastCall' = Call("constructor", TRUE,
                                "Organizer cannot be zero address")
            /\ UNCHANGED <<ledger, now, submitted>>
       ELSE LET f == FheAsEuint32(Fhe(cts, acl, {}, TRUE), 0) IN
            /\ organizer' = _organizer
            /\ _zeroEuint32' = Len(f.cts)
            /\ cts' = f.cts
            /\ acl' = f.acl
            /\ constructedWith' = _organizer
            /\ lastCall' = Call("constructor", TRUE, "none")
            /\ UNCHANGED <<_bids, _bidders, _lowestBid, _lowestBidder,
                           _lowestBidCalculated, events, now, submitted>>

(* ----------------------- the page when mounted ------------------------- *)
Some(v) == <<v>>

\* no call of the hook's submitBid / findLowestBid has been made
IdleCall == [op |-> "none", pc |-> "idle", proof |-> TRUE, gas |-> "none",
             thrown |-> "none", result |-> "none", confirmed |-> FALSE]

\* a handler run: the value of isOrganizer it read, the handle it passed to
\* decryptBid (None when it made no decryptBid call) and the toast it showed
PageCall(handler, flag, decrypted, toast) ==
    [handler |-> handler, isOrganizer |-> flag, decryptBid |-> decrypted,
     toast |-> toast]

\* the initial values of the useState hooks; no wallet is connected
InitUi ==
    /\ address = Undefined
    /\ ethersProvider = FALSE
    /\ isOrganizer = FALSE
    /\ checks = {}
    /\ timers = {}
    /\ polls = 0
    /\ mounted = TRUE
    /\ setBy = Undefined
    /\ lastPoll = Undefined
    /\ isLoading = FALSE
    /\ message = None
    /\ call = IdleCall
    /\ calls = 0
    /\ lowestBid = None
    /\ decryptedLowest = None
    /\ bids = <<>>
    /\ pageCall = PageCall("none", FALSE, None, "none")

\* before any deployment: storage is all zero
InitDeploy ==
    /\ organizer = ZeroAddress
    /\ _bids = [a \in Accounts |-> NoBid]
    /\ _bidders = <<>>
    /\ _lowestBid = NullHandle
    /\ _lowestBidder = ZeroAddress
    /\ _lowestBidCalculated = FALSE
    /\ _zeroEuint32 = NullHandle
    /\ cts = <<>>
    /\ acl = {}
    /\ events = <<>>
    /\ now = 1
    /\ lastCall = Call("none", TRUE, "none")
    /\ submitted = [a \in Accounts |-> "none"]
    /\ constructedWith = NoLedger
    /\ InitUi

\* the ledger as deployed by the deploy script: organizer = deployer
Init ==
    LET f == FheAsEuint32(Fhe(<<>>, {}, {}, TRUE), 0) IN
    /\ organizer = Deployer
    /\ _bids = [a \in Accounts |-> NoBid]
    /\ _bidders = <<>>
    /\ _lowestBid = NullHandle
    /\ _lowestBidder = ZeroAddress
    /\ _lowestBidCalculated = FALSE
    /\ _zeroEuint32 = Len(f.cts)
    /\ cts = f.cts
    /\ acl = f.acl
    /\ events = <<>>
    /\ now = 1
    /\ lastCall = Call("constructor", TRUE, "none")
    /\ submitted = [a \in Accounts |-> "none"]
    /\ constructedWith = Deployer
    /\ InitUi

(* ----------------------------- submitBid ------------------------------- *)
\* variant: an update keeps the old timestamp
SubmitBidBidStaleTime(sender, price) ==
    IF _bids[sender].exists
    THEN [_bids[sender] EXCEPT !.encryptedPrice = price]
    ELSE [encryptedPrice |-> price, bidder |-> sender,
          timestamp |-> now, exists |-> TRUE]

\* variant: a new bid is stored without its owner
SubmitBidBidNoOwner(sender, price) ==
    IF _bids[sender].exists
    THEN [_bids[sender] EXCEPT !.encryptedPrice = price, !.timestamp = now]
    ELSE [encryptedPrice |-> price, bidder |-> ZeroAddress,
          timestamp |-> now, exists |-> TRUE]

\* the bid stored for msg.sender
SubmitBidBid(sender, price) ==
    IF _bids[sender].exists
    THEN [_bids[sender] EXCEPT !.encryptedPrice = price, !.timestamp = now]
    ELSE [encryptedPrice |-> price, bidder |-> sender,
          timestamp |-> now, exists |-> TRUE]

\* variant: every submission is pushed
SubmitBidBiddersAlways(sender) == Append(_bidders, sender)

\* variant: the exists test is inverted
SubmitBidBiddersInverted(sender) ==
    IF _bids[sender].exists THEN Append(_bidders, sender) ELSE _bidders

\* variant: a new bidder is put in front of the list
SubmitBidBiddersFront(sender) ==
    IF _bids[sender].exists THEN _bidders ELSE <<sender>> \o _bidders

\* variant: a re-submitting bidder is moved to the end of the list
SubmitBidBiddersMoveToEnd(sender) ==
    Append(SelectSeq(_bidders, LAMBDA b : b # sender), sender)

SubmitBidBidders(sender) ==
    IF _bids[sender].exists THEN _bidders ELSE Append(_bidders, sender)

\* variant: the organizer is not granted
SubmitBidGrantsThisOnly(f, h, sender) == FheAllowThis(f, h)

\* variant: the bidder is granted as well
SubmitBidGrantsSender(f, h, sender) ==
    FheAllow(FheAllow(FheAllowThis(f, h), h, organizer), h, sender)

SubmitBidGrants(f, h, sender) == FheAllow(FheAllowThis(f, h), h, organizer)

\* variant: the flag is not reset
SubmitBidFlagKept == _lowestBidCalculated

SubmitBidFlag == FALSE

SubmitBid(sender, clear, proofOK) ==
    IF ~FheVerify(proofOK)
    THEN /\ lastCall' = Call("submitBid", proofOK, "InvalidCiphertextProof")
         /\ UNCHANGED <<ledger, now, submitted>>
    ELSE LET f0    == FheFromExternal(Fhe(cts, acl, {}, TRUE), clear)
             price == Len(f0.cts)
             bid   == SubmitBidBid(sender, price)
             f1    == SubmitBidGrants(f0, bid.encryptedPrice, sender)
         IN  IF ~f1.ok
             THEN /\ lastCall' = Call("submitBid", proofOK, "ACLNotAllowed")
                  /\ UNCHANGED <<ledger, now, submitted>>
             ELSE /\ Len(events) < MaxEvents
                  /\ _bids' = [_bids EXCEPT ![sender] = bid]
                  /\ _bidders' = SubmitBidBidders(sender)
                  /\ cts' = f1.cts
                  /\ acl' = f1.acl
                  /\ _lowestBidCalculated' = SubmitBidFlag
                  /\ events' = Append(events, BidSubmitted(sender, now))
                  /\ lastCall' = Call("submitBid", proofOK, "none")
                  /\ submitted' = [submitted EXCEPT ![sender] = clear]
                  /\ UNCHANGED <<organizer, _lowestBid, _lowestBidder,
                                 _zeroEuint32, now, constructedWith>>

(* ------------------------------- views --------------------------------- *)
\* variant: the queried address is returned as the owner
GetBidEcho(bidder) ==
    LET bid == _bids[bidder] IN
    <<bid.encryptedPrice, bidder, bid.timestamp, bid.exists>>

GetBid(bidder) ==
    LET bid == _bids[bidder] IN
    <<bid.encryptedPrice, bid.bidder, bid.timestamp, bid.exists>>

\* variant: the stored handle is returned whatever the flag
GetLowestBidRaw == <<_lowestBid, _lowestBidCalculated>>

GetLowestBid ==
    IF ~_lowestBidCalculated THEN <<_zeroEuint32, FALSE>>
    ELSE <<_lowestBid, TRUE>>

GetAllBidders == _bidders

HasBid(bidder) == _bids[bidder].exists

(* --------------------------- findLowestBid ----------------------------- *)
\* variant: the operands of the comparison are swapped
FindLowestBidStepSwapped(s, i) ==
    LET currentBid == _bids[_bidders[i]].encryptedPrice
        f1 == FheLt(s.f, s.low, currentBid)
        isLess == Len(f1.cts)
        f2 == FheSelect(f1, isLess, currentBid, s.low)
    IN  [f |-> f2, low |-> Len(f2.cts)]

\* variant: the selection is made only when the comparison says "less"
FindLowestBidStepBranching(s, i) ==
    LET currentBid == _bids[_bidders[i]].encryptedPrice
        f1 == FheLt(s.f, currentBid, s.low)
        isLess == Len(f1.cts)
    IN  IF f1.cts[isLess].val = 1
        THEN [f |-> f1, low |-> currentBid]
        ELSE [f |-> f1, low |-> s.low]

\* the loop body for index i (1-based), on [f |-> coprocessor, low |-> _lowestBid]
FindLowestBidStep(s, i) ==
    LET currentBid == _bids[_bidders[i]].encryptedPrice
        f1 == FheLt(s.f, currentBid, s.low)
        isLess == Len(f1.cts)
        f2 == FheSelect(f1, isLess, currentBid, s.low)
    IN  [f |-> f2, low |-> Len(f2.cts)]

RECURSIVE FindLowestBidLoop(_, _)
FindLowestBidLoop(s, i) ==
    IF i > Len(_bidders) THEN s
    ELSE FindLowestBidLoop(FindLowestBidStep(s, i), i + 1)

FindLowestBidSeed == _bids[_bidders[1]].encryptedPrice

\* variant: every bidder is granted the result
RECURSIVE AllowEach(_, _, _)
AllowEach(f, h, who) ==
    IF who = <<>> THEN f
    ELSE AllowEach(FheAllow(f, h, Head(who)), h, Tail(who))

FindLowestBidGrantsPublic(f, h) ==
    AllowEach(FheAllow(FheAllowThis(f, h), h, organizer), h, _bidders)

FindLowestBidGrants(f, h) == FheAllow(FheAllowThis(f, h), h, organizer)

\* variant: no check of the roster length
FindLowestBidRequireNone == TRUE

\* variant: an already calculated minimum is not calculated again
FindLowestBidRequireOnce == Len(_bidders) > 0 /\ ~_lowestBidCalculated

FindLowestBidRequire == Len(_bidders) > 0

\* variant: the flag is left as it was
FindLowestBidFlagUnset == _lowestBidCalculated

FindLowestBidFlag == TRUE

\* variant: the holder of the lowest price is recorded
FindLowestBidBidderArgMin ==
    LET held(i) == cts[_bids[_bidders[i]].encryptedPrice].val
        best == CHOOSE i \in 1..Len(_bidders) :
                    \A j \in 1..Len(_bidders) :
                        held(i) < held(j) \/ (held(i) = held(j) /\ i <= j)
    IN  _bidders[best]

\* the placeholder written to _lowestBidder and carried by the event
FindLowestBidBidder == _bidders[1]

\* msg.sender is not read by findLowestBid: any account may call it
FindLowestBid ==
    IF ~FindLowestBidRequire
    THEN /\ lastCall' = Call("findLowestBid", TRUE, "No bids submitted")
         /\ UNCHANGED <<ledger, now, submitted>>
    ELSE IF Len(_bidders) = 0       \* _bidders[0] out of bounds
    THEN /\ lastCall' = Call("findLowestBid", TRUE, "Panic(0x32)")
         /\ UNCHANGED <<ledger, now, submitted>>
    ELSE LET s0 == [f |-> Fhe(cts, acl, {}, TRUE), low |-> FindLowestBidSeed]
             s1 == FindLowestBidLoop(s0, 2)
             f2 == FindLowestBidGrants(s1.f, s1.low)
         IN  IF ~f2.ok
             THEN /\ lastCall' = Call("findLowestBid", TRUE, "ACLNotAllowed")
                  /\ UNCHANGED <<ledger, now, submitted>>
             ELSE /\ Len(events) < MaxEvents
                  /\ _lowestBid' = s1.low
                  /\ _lowestBidder' = FindLowestBidBidder
                  /\ cts' = f2.cts
                  /\ acl' = f2.acl
                  /\ _lowestBidCalculated' = FindLowestBidFlag
                  /\ events' = Append(events, LowestBidCalculated(_lowestBidder', now))
                  /\ lastCall' = Call("findLowestBid", TRUE, "none")
                  /\ UNCHANGED <<organizer, _bids, _bidders, _zeroEuint32,
                                 now, submitted, constructedWith>>

(* ------------------------------ blocks --------------------------------- *)
\* a later block: block.timestamp grows
Tick ==
    /\ now < MaxTime
    /\ now' = now + 1
    /\ UNCHANGED <<ledger, lastCall, submitted>>

\* transactions sent to the ledger directly; the page stays as it is
Next ==
    \/ /\ \E sender \in Accounts, clear \in Prices, proofOK \in BOOLEAN :
             SubmitBid(sender, clear, proofOK)
       /\ UNCHANGED ui
    \/ /\ FindLowestBid
       /\ UNCHANGED ui
    \/ /\ Tick
       /\ UNCHANGED ui

Spec == Init /\ [][Next]_vars

\* the ledger from before its deployment, with any constructor argument
NextDeploy ==
    \/ /\ \E _organizer \in Accounts \cup {ZeroAddress} : Constructor(_organizer)
       /\ UNCHANGED ui
    \/ /\ constructedWith # NoLedger
       /\ Next
       /\ Len(events') <= MaxDeployEvents

SpecDeploy == InitDeploy /\ [][NextDeploy]_vars

(* =================== useBidding: the organizer check =================== *)
\* organizer.toLowerCase() === address.toLowerCase(): the two addresses are
\* equal whatever their letter case (an account has one spelling here)
SameAddress(a, b) == a = b

\* checkOrganizer, run by a closure that holds the address a and the
\* provider of the render that created it, up to its first await or return;
\* waiting are the retry timers that remain scheduled
CheckOrganizer(a, provider, waiting) ==
    IF a = Undefined
    THEN /\ isOrganizer' = FALSE
         /\ setBy' = a
         /\ timers' = waiting
         /\ UNCHANGED checks
    ELSE IF ~provider
    THEN /\ timers' = waiting \cup {a}
         /\ UNCHANGED <<isOrganizer, setBy, checks>>
    ELSE /\ checks' = checks \cup {a}
         /\ timers' = waiting
         /\ UNCHANGED <<isOrganizer, setBy>>

\* the connected account changes (connect, switch, disconnect): the effect
\* runs again with the new address
AddressChange(a) ==
    /\ mounted
    /\ a # address
    /\ address' = a
    /\ CheckOrganizer(a, ethersProvider, timers)
    /\ UNCHANGED <<ethersProvider, polls, mounted, lastPoll>>
    /\ UNCHANGED <<chain, callVars, pageVars>>

\* setupEthers sets a provider object: the effect runs again
ProviderSet ==
    /\ mounted
    /\ ethersProvider' = TRUE
    /\ CheckOrganizer(address, TRUE, timers)
    /\ UNCHANGED <<address, polls, mounted, lastPoll>>
    /\ UNCHANGED <<chain, callVars, pageVars>>

\* the wallet client is gone or setupEthers failed: the provider is unset
ProviderUnset ==
    /\ mounted
    /\ ethersProvider
    /\ ethersProvider' = FALSE
    /\ CheckOrganizer(address, FALSE, timers)
    /\ UNCHANGED <<address, polls, mounted, lastPoll>>
    /\ UNCHANGED <<chain, callVars, pageVars>>

\* contract.organizer() answers the closure that holds address c
OrganizerResolves(c) ==
    /\ c \in checks
    /\ checks' = checks \ {c}
    /\ IF mounted
       THEN /\ isOrganizer' = SameAddress(organizer, c)
            /\ setBy' = c
       ELSE UNCHANGED <<isOrganizer, setBy>>
    /\ UNCHANGED <<address, ethersProvider, timers, polls, mounted, lastPoll>>
    /\ UNCHANGED <<chain, callVars, pageVars>>

\* contract.organizer() fails: the catch block
OrganizerRejects(c) ==
    /\ c \in checks
    /\ checks' = checks \ {c}
    /\ IF mounted
       THEN /\ isOrganizer' = FALSE
            /\ setBy' = c
       ELSE UNCHANGED <<isOrganizer, setBy>>
    /\ UNCHANGED <<address, ethersProvider, timers, polls, mounted, lastPoll>>
    /\ UNCHANGED <<chain, callVars, pageVars>>

\* a retry timer fires: the closure that scheduled it calls itself, with the
\* address and the (undefined) provider it has held since it was created
RetryFires(t) ==
    /\ t \in timers
    /\ polls < MaxPolls
    /\ polls' = polls + 1
    /\ lastPoll' = t
    /\ CheckOrganizer(t, FALSE, timers \ {t})
    /\ UNCHANGED <<address, ethersProvider, mounted>>
    /\ UNCHANGED <<chain, callVars, pageVars>>

\* the component unmounts; the effect returns no cleanup function
Unmount ==
    /\ mounted
    /\ mounted' = FALSE
    /\ UNCHANGED <<address, ethersProvider, isOrganizer, checks, timers,
                   polls, setBy, lastPoll>>
    /\ UNCHANGED <<chain, callVars, pageVars>>

NextOrganizer ==
    \/ \E a \in Accounts \cup {Undefined} : AddressChange(a)
    \/ ProviderSet
    \/ ProviderUnset
    \/ \E c \in checks : OrganizerResolves(c)
    \/ \E c \in checks : OrganizerRejects(c)
    \/ \E t \in timers : RetryFires(t)
    \/ Unmount

SpecOrganizer == Init /\ [][NextOrganizer]_vars

(* ========== useBidding: the calls submitBid and findLowestBid ========== *)
\* variant: the finally block leaves isLoading as it is
UseBiddingFinallyKept == isLoading

\* finally { setIsLoading(false) }
UseBiddingFinally == FALSE

\* catch (error) { setMessage(`Error: ...`); throw error } finally { ... }:
\* the promise of the call rejects with the error that was thrown
UseBiddingCatch(error) ==
    /\ call' = [call EXCEPT !.pc = "settled", !.thrown = error, !.result = error]
    /\ message' = <<"Error: ", error>>
    /\ isLoading' = UseBiddingFinally

\* submitBid(price) up to its first await; pre is "ok" or the error of the
\* precondition that fails, thrown before the try block.  The page's buttons
\* are disabled while isLoading.
UseBiddingSubmitBid(pre) ==
    /\ ~isLoading
    /\ calls < MaxCalls
    /\ calls' = calls + 1
    /\ IF pre # "ok"
       THEN /\ call' = [IdleCall EXCEPT !.op = "submitBid", !.pc = "settled",
                                        !.thrown = pre, !.result = pre]
            /\ UNCHANGED <<isLoading, message>>
       ELSE /\ call' = [IdleCall EXCEPT !.op = "submitBid", !.pc = "encrypt"]
            /\ isLoading' = TRUE
            /\ message' = <<"Encrypting bid...">>
    /\ UNCHANGED <<chain, checkVars, pageVars>>

\* findLowestBid() up to its first await
UseBiddingFindLowestBid(pre) ==
    /\ ~isLoading
    /\ calls < MaxCalls
    /\ calls' = calls + 1
    /\ IF pre # "ok"
       THEN /\ call' = [IdleCall EXCEPT !.op = "findLowestBid", !.pc = "settled",
                                        !.thrown = pre, !.result = pre]
            /\ UNCHANGED <<isLoading, message>>
       ELSE /\ call' = [IdleCall EXCEPT !.op = "findLowestBid",
                                        !.pc = "estimateGas"]
            /\ isLoading' = TRUE
            /\ message' = <<"Finding lowest bid...">>
    /\ UNCHANGED <<chain, checkVars, pageVars>>

\* await encryptedInput.encrypt() settles
UseBiddingEncrypt(outcome) ==
    /\ call.pc = "encrypt"
    /\ CASE outcome = "ok" ->
              /\ call' = [call EXCEPT !.pc = "getCode"]
              /\ message' = <<"Submitting to blockchain...">>
              /\ UNCHANGED isLoading
         [] outcome = "noProof" ->
              /\ call' = [call EXCEPT !.pc = "getCode", !.proof = FALSE]
              /\ message' = <<"Submitting to blockchain...">>
              /\ UNCHANGED isLoading
         [] outcome = "noHandle" ->
              UseBiddingCatch("Encryption failed - expected 1 handle")
         [] outcome = "throws" ->
              UseBiddingCatch("encrypt failed")
    /\ UNCHANGED <<calls, chain, checkVars, pageVars>>

\* await ethersProvider.getCode(contractAddress) settles
UseBiddingGetCode(outcome) ==
    /\ call.pc = "getCode"
    /\ CASE outcome = "code" ->
              IF ~call.proof
              THEN UseBiddingCatch("Encryption failed - missing handle or proof")
              ELSE /\ call' = [call EXCEPT !.pc = "estimateGas"]
                   /\ UNCHANGED <<message, isLoading>>
         [] outcome = "0x" ->
              UseBiddingCatch("Contract not deployed")
         [] outcome = "throws" ->
              UseBiddingCatch("getCode failed")
    /\ UNCHANGED <<calls, chain, checkVars, pageVars>>

\* await contract.<op>.estimateGas(...) settles; a failure is caught and
\* replaced by a fixed gas amount
UseBiddingEstimateGas(ok) ==
    /\ call.pc = "estimateGas"
    /\ call' = [call EXCEPT !.pc = "send",
                            !.gas = IF ok THEN "estimate" ELSE "fallback"]
    /\ message' = IF call.op = "findLowestBid"
                  THEN <<"Submitting transaction...">> ELSE message
    /\ UNCHANGED <<isLoading, calls, chain, checkVars, pageVars>>

\* await contract.<op>(..., {gasLimit}) settles: the wallet sent the
\* transaction or refused
UseBiddingSend(ok) ==
    /\ call.pc = "send"
    /\ IF ok
       THEN /\ call' = [call EXCEPT !.pc = "wait"]
            /\ message' = <<"Waiting for transaction confirmation...">>
            /\ UNCHANGED isLoading
       ELSE UseBiddingCatch("transaction rejected")
    /\ UNCHANGED <<calls, chain, checkVars, pageVars>>

\* await tx.wait() settles: the transaction was not mined, or it was mined
\* and ran the ledger's function, which succeeded or reverted
UseBiddingWait(mined) ==
    /\ call.pc = "wait"
    /\ IF ~mined
       THEN /\ UseBiddingCatch("transaction failed")
            /\ UNCHANGED chain
       ELSE /\ IF call.op = "submitBid"
               THEN \E sender \in Accounts, clear \in Prices, proofOK \in BOOLEAN :
                       SubmitBid(sender, clear, proofOK)
               ELSE FindLowestBid
            /\ IF lastCall'.err # "none"
               THEN UseBiddingCatch(lastCall'.err)
               ELSE IF call.op = "submitBid"
               THEN /\ call' = [call EXCEPT !.pc = "settled", !.confirmed = TRUE,
                                            !.result = "resolved"]
                    /\ message' = <<"Bid submitted successfully!">>
                    /\ isLoading' = UseBiddingFinally
               ELSE /\ call' = [call EXCEPT !.pc = "sleep", !.confirmed = TRUE]
                    /\ message' = <<"Waiting for state update and permissions...">>
                    /\ UNCHANGED isLoading
    /\ UNCHANGED <<calls, checkVars, pageVars>>

\* the three seconds of findLowestBid after the confirmation have passed
UseBiddingSleep ==
    /\ call.pc = "sleep"
    /\ call' = [call EXCEPT !.pc = "settled", !.result = "resolved"]
    /\ message' = <<"Lowest bid calculated successfully!">>
    /\ isLoading' = UseBiddingFinally
    /\ UNCHANGED <<calls, chain, checkVars, pageVars>>

NextHook ==
    \/ \E pre \in {"ok", "Contract address not configured",
                   "Wallet not connected or FHEVM not initialized"} :
          UseBiddingSubmitBid(pre)
    \/ \E pre \in {"ok", "Wallet not connected or contract address not configured"} :
          UseBiddingFindLowestBid(pre)
    \/ \E outcome \in {"ok", "noProof", "noHandle", "throws"} :
          UseBiddingEncrypt(outcome)
    \/ \E outcome \in {"code", "0x", "throws"} : UseBiddingGetCode(outcome)
    \/ \E ok \in BOOLEAN : UseBiddingEstimateGas(ok)
    \/ \E ok \in BOOLEAN : UseBiddingSend(ok)
    \/ \E mined \in BOOLEAN : UseBiddingWait(mined)
    \/ UseBiddingSleep

SpecHook == Init /\ [][NextHook]_vars

(* ===================== useBidding: reads and decryption ================ *)
\* ethers.hexlify(bytes32): the handle as a hex string
Hexlify(h) == <<"0x", h>>

\* the handle a hex string stands for
HandleOf(hex) == hex[2]

\* getAllBidders(): [] without a provider
UseBiddingGetAllBidders(provider, roster) == IF ~provider THEN <<>> ELSE roster

\* getBid(bidder): null without a provider; bid is the ledger's getBid tuple
UseBiddingGetBid(provider, bid) ==
    IF ~provider THEN None
    ELSE Some([encryptedPrice |-> Hexlify(bid[1]), bidderAddress |-> bid[2],
               timestamp |-> bid[3], exists |-> bid[4]])

\* getLowestBid(): null without a provider; low is the ledger's getLowestBid
UseBiddingGetLowestBid(provider, low) ==
    IF ~provider THEN None
    ELSE Some([encryptedPrice |-> Hexlify(low[1]), exists |-> low[2]])

\* decryptBid(encryptedValue) for the account who, on the coprocessor state
\* (c, a): None when it throws (requirements missing, or the decryption
\* service rejects the request), else the value
UseBiddingDecryptBid(c, a, who, provider, hex) ==
    IF who = Undefined \/ ~provider THEN None
    ELSE IF <<HandleOf(hex), who>> \in a /\ <<HandleOf(hex), This>> \in a
    THEN Some(DecryptWith(c, a, HandleOf(hex), who))
    ELSE None

(* ============================ Index: the page ========================== *)
\* loadBids(): the roster's bids as displayed, none of them decrypted
LoadBids(provider, roster, getBid) ==
    LET bidders == UseBiddingGetAllBidders(provider, roster) IN
    [i \in 1..Len(bidders) |->
        LET bid == UseBiddingGetBid(provider, getBid[bidders[i]])[1] IN
        [bidder |-> bidders[i], encryptedPrice |-> bid.encryptedPrice,
         timestamp |-> bid.timestamp, decryptedPrice |-> None]]

\* variant: the lowest bid is decrypted whenever it exists
LoadLowestBidDecryptsAlways(lowest, flag) == lowest # None /\ lowest[1].exists

\* lowest?.exists && isOrganizer
LoadLowestBidDecrypts(lowest, flag) == lowest # None /\ lowest[1].exists /\ flag

\* loadLowestBid(), by a closure holding flag (isOrganizer) and the account
\* who: the new lowestBid and decryptedLowest, and the handle passed to
\* decryptBid (None when decryptBid was not called)
LoadLowestBid(flag, provider, low, c, a, who, shown) ==
    LET lowest == UseBiddingGetLowestBid(provider, low)
        decrypts == LoadLowestBidDecrypts(lowest, flag)
        decrypted == IF decrypts
                     THEN UseBiddingDecryptBid(c, a, who, provider,
                                               lowest[1].encryptedPrice)
                     ELSE None
    IN  [lowestBid |-> lowest,
         decryptedLowest |-> IF decrypted # None THEN decrypted ELSE shown,
         decryptBid |-> IF decrypts THEN Some(lowest[1].encryptedPrice) ELSE None]

\* a handler that only shows a toast
IndexToast(handler, toast) ==
    /\ pageCall' = PageCall(handler, isOrganizer, None, toast)
    /\ UNCHANGED <<lowestBid, decryptedLowest, bids>>

\* useEffect [contractAddress, isConnected, loadBids, loadLowestBid], run by
\* the render in which the account is who and isOrganizer is flag
IndexEffect(who, provider, flag) ==
    IF who = Undefined
    THEN /\ pageCall' = PageCall("useEffect", flag, None, "none")
         /\ UNCHANGED <<lowestBid, decryptedLowest, bids>>
    ELSE LET r == LoadLowestBid(flag, provider, GetLowestBid, cts, acl, who,
                                decryptedLowest)
         IN  /\ bids' = LoadBids(provider, GetAllBidders,
                                 [b \in Accounts |-> GetBid(b)])
             /\ lowestBid' = r.lowestBid
             /\ decryptedLowest' = r.decryptedLowest
             /\ pageCall' = PageCall("useEffect", flag, r.decryptBid, "none")

\* the wallet connects as a, switches to a or disconnects (a = Undefined);
\* the hook's provider follows the wallet and the effect runs again
PageConnect(a) ==
    /\ a # address
    /\ address' = a
    /\ ethersProvider' = (a # Undefined)
    /\ IndexEffect(a, a # Undefined, isOrganizer)
    /\ UNCHANGED <<isOrganizer, checks, timers, polls, mounted, setBy, lastPoll>>
    /\ UNCHANGED <<chain, callVars>>

\* the hook returns another isOrganizer: loadLowestBid is a new function
\* and the effect runs again
HookIsOrganizer(flag) ==
    /\ flag # isOrganizer
    /\ isOrganizer' = flag
    /\ IndexEffect(address, ethersProvider, flag)
    /\ UNCHANGED <<address, ethersProvider, checks, timers, polls, mounted,
                   setBy, lastPoll>>
    /\ UNCHANGED <<chain, callVars>>

\* the Refresh button: loadBids()
HandleRefresh ==
    /\ bids' = LoadBids(ethersProvider, GetAllBidders,
                        [b \in Accounts |-> GetBid(b)])
    /\ pageCall' = PageCall("loadBids", isOrganizer, None, "none")
    /\ UNCHANGED <<lowestBid, decryptedLowest>>
    /\ UNCHANGED <<chain, checkVars, callVars>>

\* handleSubmitBid with bidPrice = price; sent is FALSE when the hook's
\* submitBid fails before a transaction is mined.  The hook's call runs to
\* its end here, which leaves isLoading false.
HandleSubmitBid(price, sent) ==
    /\ IF address = Undefined
       THEN /\ IndexToast("handleSubmitBid", "Wallet Not Connected")
            /\ UNCHANGED <<chain, message>>
       ELSE IF price <= 0
       THEN /\ IndexToast("handleSubmitBid", "Invalid Price")
            /\ UNCHANGED <<chain, message>>
       ELSE IF ~sent
       THEN /\ IndexToast("handleSubmitBid", "Error Submitting Bid")
            /\ message' = <<"Error: ", "transaction rejected">>
            /\ UNCHANGED chain
       ELSE /\ SubmitBid(address, price, TRUE)
            /\ Len(events') <= MaxPageEvents
            /\ IF lastCall'.err # "none"
               THEN /\ IndexToast("handleSubmitBid", "Error Submitting Bid")
                    /\ message' = <<"Error: ", lastCall'.err>>
               ELSE /\ bids' = LoadBids(ethersProvider, GetAllBidders',
                                        [b \in Accounts |-> GetBid(b)]')
                    /\ pageCall' = PageCall("handleSubmitBid", isOrganizer, None,
                                            "Bid Submitted Successfully!")
                    /\ message' = <<"Bid submitted successfully!">>
                    /\ UNCHANGED <<lowestBid, decryptedLowest>>
    /\ UNCHANGED <<checkVars, isLoading, call, calls>>

\* handleFindLowest
HandleFindLowest(sent) ==
    /\ IF address = Undefined
       THEN /\ IndexToast("handleFindLowest", "Wallet Not Connected")
            /\ UNCHANGED <<chain, message>>
       ELSE IF ~sent
       THEN /\ IndexToast("handleFindLowest", "Error Finding Lowest Bid")
            /\ message' = <<"Error: ", "transaction rejected">>
            /\ UNCHANGED chain
       ELSE /\ FindLowestBid
            /\ Len(events') <= MaxPageEvents
            /\ IF lastCall'.err # "none"
               THEN /\ IndexToast("handleFindLowest", "Error Finding Lowest Bid")
                    /\ message' = <<"Error: ", lastCall'.err>>
               ELSE LET r == LoadLowestBid(isOrganizer, ethersProvider,
                                           GetLowestBid', cts', acl', address,
                                           decryptedLowest)
                    IN  /\ lowestBid' = r.lowestBid
                        /\ decryptedLowest' = r.decryptedLowest
                        /\ pageCall' = PageCall("handleFindLowest", isOrganizer,
                                                r.decryptBid, "Lowest Bid Calculated")
                        /\ message' = <<"Lowest bid calculated successfully!">>
                        /\ UNCHANGED bids
    /\ UNCHANGED <<checkVars, isLoading, call, calls>>

\* handleDecryptBid(bids[i].encryptedPrice, bids[i].bidder); isDecrypting is
\* set for the time of the call and null again at its end
HandleDecryptBid(i) ==
    /\ i \in 1..Len(bids)
    /\ IF ~isOrganizer
       THEN /\ IndexToast("handleDecryptBid", "Unauthorized")
            /\ UNCHANGED message
       ELSE LET decrypted == UseBiddingDecryptBid(cts, acl, address, ethersProvider,
                                                  bids[i].encryptedPrice)
                called == Some(bids[i].encryptedPrice)
            IN  IF decrypted = None
                THEN /\ pageCall' = PageCall("handleDecryptBid", isOrganizer, called,
                                             "Decryption Error")
                     /\ message' = <<"Decryption error: ", "rejected">>
                     /\ UNCHANGED <<lowestBid, decryptedLowest, bids>>
                ELSE /\ bids' = [j \in 1..Len(bids) |->
                                   IF bids[j].bidder = bids[i].bidder
                                   THEN [bids[j] EXCEPT !.decryptedPrice = decrypted]
                                   ELSE bids[j]]
                     /\ pageCall' = PageCall("handleDecryptBid", isOrganizer, called,
                                             "Bid Decrypted")
                     /\ message' = <<"Decryption successful">>
                     /\ UNCHANGED <<lowestBid, decryptedLowest>>
    /\ UNCHANGED <<chain, checkVars, isLoading, call, calls>>

\* the Decrypt Lowest Bid button, which is rendered only while the lowest
\* bid exists, isOrganizer is true and no decrypted value is held
HandleDecryptLowest ==
    /\ lowestBid # None
    /\ lowestBid[1].exists
    /\ isOrganizer
    /\ decryptedLowest = None
    /\ LET decrypted == UseBiddingDecryptBid(cts, acl, address, ethersProvider,
                                             lowestBid[1].encryptedPrice)
           called == Some(lowestBid[1].encryptedPrice)
       IN  IF decrypted = None
           THEN /\ pageCall' = PageCall("decryptLowest", isOrganizer, called,
                                        "Decryption Error")
                /\ message' = <<"Decryption error: ", "rejected">>
                /\ UNCHANGED decryptedLowest
           ELSE /\ decryptedLowest' = decrypted
                /\ pageCall' = PageCall("decryptLowest", isOrganizer, called, "none")
                /\ message' = <<"Decryption successful">>
    /\ UNCHANGED <<lowestBid, bids>>
    /\ UNCHANGED <<chain, checkVars, isLoading, call, calls>>

NextPage ==
    \/ \E a \in Accounts \cup {Undefined} : PageConnect(a)
    \/ \E flag \in BOOLEAN : HookIsOrganizer(flag)
    \/ HandleRefresh
    \/ \E price \in Prices, sent \in BOOLEAN : HandleSubmitBid(price, sent)
    \/ \E sent \in BOOLEAN : HandleFindLowest(sent)
    \/ \E i \in 1..Len(bids) : HandleDecryptBid(i)
    \/ HandleDecryptLowest

SpecPage == Init /\ [][NextPage]_vars

\* the page with fewer transactions
NextDecrypt ==
    /\ NextPage
    /\ Len(events') <= MaxDecryptEvents

SpecDecrypt == Init /\ [][NextDecrypt]_vars

(* ===================== properties of the contract ====================== *)
Range(q) == {q[i] : i \in 1..Len(q)}

Last(q) == q[Len(q)]

Minimum(S) == CHOOSE m \in S : \A x \in S : m <= x

\* the plaintexts of the bids in the roster
RosterPlain == {cts[_bids[_bidders[i]].encryptedPrice].val : i \in 1..Len(_bidders)}

\* positions of the BidSubmitted events of an account
SubmissionsOf(a) ==
    {i \in 1..Len(events) : events[i].name = "BidSubmitted" /\ events[i].who = a}

CallSucceeded(op) == lastCall.op = op /\ lastCall.err = "none"

\* the step is a successful submitBid / findLowestBid
SubmitDone == events' # events /\ Last(events').name = "BidSubmitted"

FindDone == events' # events /\ Last(events').name = "LowestBidCalculated"

\* C1: right after a successful findLowestBid, the handle returned by
\* getLowestBid decrypts, for the organizer, to the minimum of the
\* plaintexts of the current bids of all roster entries.
C1_LowestIsMinimum ==
    CallSucceeded("findLowestBid") =>
        /\ GetLowestBid[2]
        /\ UserDecrypt(GetLowestBid[1], organizer) = Minimum(RosterPlain)

\* C1 witness: evaluated over two entries, and the minimum is not the
\* first entry's price
C1_Witness ==
    /\ CallSucceeded("findLowestBid")
    /\ Len(_bidders) = 2
    /\ UserDecrypt(GetLowestBid[1], organizer)
          < cts[_bids[_bidders[1]].encryptedPrice].val

\* C2: _lowestBidCalculated is true iff some findLowestBid has succeeded and
\* no submitBid has succeeded since the most recent one, i.e. iff the last
\* successful transaction is a findLowestBid.
C2_FlagIffEvaluatedLast ==
    /\ _lowestBidCalculated
          <=> (events # <<>> /\ Last(events).name = "LowestBidCalculated")
    /\ GetLowestBid[2] = _lowestBidCalculated

\* C2 witness: a re-submission invalidated a computed minimum
C2_Witness ==
    /\ ~GetLowestBid[2]
    /\ \E i \in 1..Len(events) : events[i].name = "LowestBidCalculated"
    /\ \E a \in Accounts : Cardinality(SubmissionsOf(a)) >= 2

\* the submitters of a log, each once, in the order of their first submission
RECURSIVE FirstSubmitters(_)
FirstSubmitters(log) ==
    IF log = <<>> THEN <<>>
    ELSE LET before == FirstSubmitters(SubSeq(log, 1, Len(log) - 1))
             e      == Last(log)
         IN  IF e.name = "BidSubmitted" /\ e.who \notin Range(before)
             THEN Append(before, e.who) ELSE before

\* C3: getAllBidders lists exactly the identities that have successfully
\* submitted, each once, in the order of their first successful submission.
C3_RosterIsFirstSubmissions == GetAllBidders = FirstSubmitters(events)

\* C3 witness: two listed identities, the first of them re-submitted after
\* the second
C3_Witness ==
    /\ Len(GetAllBidders) = 2
    /\ \E i, j, k \in 1..Len(events) :
          /\ i < j /\ j < k
          /\ events[i].name = "BidSubmitted" /\ events[i].who = _bidders[1]
          /\ events[j].name = "BidSubmitted" /\ events[j].who = _bidders[2]
          /\ events[k].name = "BidSubmitted" /\ events[k].who = _bidders[1]

\* C4: a successful submitBid by an identity that already has a bid stores
\* the newly imported ciphertext and the current time in that bid, leaves
\* the roster, the bid's bidder and exists unchanged, and getBid then
\* decrypts (for the organizer) to the price just submitted.
C4_ResubmitOverwrites ==
    [][ LET a == Last(events').who IN
        (SubmitDone /\ _bids[a].exists) =>
            /\ _bidders' = _bidders
            /\ _bids'[a].bidder = _bids[a].bidder
            /\ _bids'[a].exists = _bids[a].exists
            /\ _bids'[a].timestamp = now
            /\ _bids'[a].encryptedPrice = Len(cts')
            /\ _bids'[a].encryptedPrice \notin 0..Len(cts)
            /\ cts'[_bids'[a].encryptedPrice].kind = "input"
            /\ DecryptWith(cts', acl', _bids'[a].encryptedPrice, organizer)
                  = submitted'[a] ]_vars

\* C4 witness: a bid first submitted at time 1 was overwritten at time 2
C4_Witness ==
    /\ CallSucceeded("submitBid")
    /\ LET a == Last(events).who IN
          /\ Cardinality(SubmissionsOf(a)) >= 2
          /\ \E i \in SubmissionsOf(a) : events[i].timestamp = 1
          /\ _bids[a].timestamp = 2
          /\ Len(_bidders) = 2

\* C5: findLowestBid on an empty roster reverts with "No bids submitted"
\* and changes nothing: flag, minimum, roster, bids, grants and event log
\* keep their values.
C5_EmptyLedgerNoChange ==
    [][ (lastCall'.op = "findLowestBid" /\ lastCall' # lastCall
            /\ _bidders = <<>>) =>
            /\ lastCall'.err = "No bids submitted"
            /\ UNCHANGED ledger ]_vars

\* C5 witness: the call was made on the empty roster and failed
C5_Witness ==
    /\ lastCall.op = "findLowestBid"
    /\ lastCall.err = "No bids submitted"
    /\ _bidders = <<>>

\* C6: a submitBid whose proof is not authentic reverts with
\* InvalidCiphertextProof and writes nothing: roster, bids, flag, grants,
\* ciphertext store and event log keep their values.
C6_InvalidProofNoChange ==
    [][ (lastCall'.op = "submitBid" /\ lastCall' # lastCall
            /\ ~lastCall'.valid) =>
            /\ lastCall'.err = "InvalidCiphertextProof"
            /\ UNCHANGED ledger ]_vars

\* C6 witness: a submission was rejected while the roster was not empty
\* and a computed minimum was exposed
C6_Witness ==
    /\ lastCall.op = "submitBid"
    /\ lastCall.err = "InvalidCiphertextProof"
    /\ _bidders # <<>>
    /\ _lowestBidCalculated

\* C7: for every identity with a bid, the organizer holds a grant on the
\* bid's current ciphertext and decrypts getBid to the price that identity
\* submitted last.
C7_OrganizerDecryptsEveryBid ==
    \A a \in Accounts :
        GetBid(a)[4] =>
            /\ organizer \in Grantees(GetBid(a)[1])
            /\ UserDecrypt(GetBid(a)[1], organizer) = submitted[a]

\* C7 witness: a non-organizer identity has re-submitted
C7_Witness ==
    \E a \in Accounts \ {organizer} :
        /\ GetBid(a)[4]
        /\ Cardinality(SubmissionsOf(a)) >= 2
        /\ UserDecrypt(GetBid(a)[1], organizer) = 1

C9_BidsOnlyForOrganizer ==
    \A h \in 1..Len(cts) :
        cts[h].kind = "input" => Grantees(h) \subseteq {organizer, This}

\* C9 witness: a one-entry roster of a non-organizer was evaluated, so the
\* minimum is that bid's own handle
C9_Witness ==
    /\ Len(_bidders) = 1
    /\ _bidders[1] # organizer
    /\ GetLowestBid[2]
    /\ GetLowestBid[1] = GetBid(_bidders[1])[1]

\* C10: getLowestBid returns (zero ciphertext, false) when the flag is
\* false and (_lowestBid, true) otherwise; the zero ciphertext is the
\* constructor's encryption of 0 and never the stored minimum's handle.
C10_GetLowestBid ==
    /\ GetLowestBid[2] = _lowestBidCalculated
    /\ _lowestBidCalculated => GetLowestBid[1] = _lowestBid
    /\ ~_lowestBidCalculated =>
          /\ GetLowestBid[1] = _zeroEuint32
          /\ GetLowestBid[1] # _lowestBid
          /\ cts[GetLowestBid[1]] = [kind |-> "trivial", val |-> 0]

\* C10 witness: a computed minimum was invalidated by a submission
C10_Witness ==
    /\ ~_lowestBidCalculated
    /\ _lowestBid # NullHandle
    /\ GetLowestBid = <<_zeroEuint32, FALSE>>

\* C11: a findLowestBid called while the minimum is calculated (no submitBid
\* since the last findLowestBid) succeeds, leaves the flag true, and the
\* organizer decrypts getLowestBid to the same value as before the call.
C11_EvaluateTwice ==
    [][ (_lowestBidCalculated /\ lastCall'.op = "findLowestBid"
            /\ (events' # events \/ lastCall' # lastCall)) =>
            /\ lastCall'.err = "none"
            /\ FindDone
            /\ _lowestBidCalculated'
            /\ UserDecrypt(GetLowestBid[1], organizer)'
                  = UserDecrypt(GetLowestBid[1], organizer) ]_vars

\* C11 witness: two evaluations in a row
C11_Witness ==
    /\ _lowestBidCalculated
    /\ \E i \in 1..(Len(events) - 1) :
          /\ events[i].name = "LowestBidCalculated"
          /\ events[i + 1].name = "LowestBidCalculated"

\* C12: for an identity that never submitted successfully, getBid returns
\* exists = false, the null handle, no owner and no timestamp.
C12_GetBidOfAbsent ==
    \A a \in Accounts :
        SubmissionsOf(a) = {} =>
            GetBid(a) = <<NullHandle, ZeroAddress, 0, FALSE>>

\* C12 witness: some identity has a bid and an evaluation ran, another
\* identity never submitted
C12_Witness ==
    /\ _lowestBidCalculated
    /\ \E a \in Accounts : SubmissionsOf(a) = {} /\ ~GetBid(a)[4]
    /\ \E b \in Accounts : SubmissionsOf(b) # {}

\* C13: for every identity that has submitted successfully, getBid returns
\* exists = true, that identity as the owner, and a handle that is neither
\* the null handle nor the zero ciphertext.
C13_GetBidOfPresent ==
    \A a \in Accounts :
        SubmissionsOf(a) # {} =>
            /\ GetBid(a)[4]
            /\ GetBid(a)[2] = a
            /\ GetBid(a)[1] \notin {NullHandle, _zeroEuint32}

\* C13 witness: an identity re-submitted and an evaluation followed
C13_Witness ==
    /\ CallSucceeded("findLowestBid")
    /\ \E a \in Accounts :
          /\ Cardinality(SubmissionsOf(a)) = 2
          /\ GetBid(a)[2] = a

\* C14: hasBid(x), getBid(x).exists and the membership of x in
\* getAllBidders agree, and hold exactly when x has submitted successfully.
C14_PresenceViewsAgree ==
    \A x \in Accounts :
        /\ HasBid(x) <=> GetBid(x)[4]
        /\ HasBid(x) <=> x \in Range(GetAllBidders)
        /\ HasBid(x) <=> SubmissionsOf(x) # {}

\* C14 witness: one identity is present in all three views, another absent
C14_Witness ==
    /\ \E x \in Accounts :
          HasBid(x) /\ GetBid(x)[4] /\ x \in Range(GetAllBidders)
    /\ \E y \in Accounts :
          ~HasBid(y) /\ ~GetBid(y)[4] /\ y \notin Range(GetAllBidders)
    /\ Len(GetAllBidders) = 2

\* C15: a constructor call with the zero address creates no ledger, and the
\* organizer of a created ledger is the constructor's argument in every
\* state, whatever operations follow.
C15_OrganizerFixedAtConstruction ==
    /\ constructedWith # ZeroAddress
    /\ (lastCall.op = "constructor" /\ lastCall.err # "none") =>
          constructedWith = NoLedger
    /\ constructedWith = NoLedger =>
          /\ organizer = ZeroAddress
          /\ cts = <<>> /\ acl = {} /\ events = <<>>
          /\ _zeroEuint32 = NullHandle
    /\ constructedWith # NoLedger => organizer = constructedWith

\* C15 witness: a ledger created for an organizer other than the deployer,
\* after a bid and an evaluation
C15_Witness ==
    /\ constructedWith = "alice"
    /\ organizer = "alice"
    /\ Len(events) = 2
    /\ _lowestBidCalculated

\* C16 (as stated): the bids and the roster are changed only by submitBid,
\* and _lowestBid and _lowestBidCalculated only by findLowestBid; a
\* submitBid leaves _lowestBid and _lowestBidCalculated unchanged.
C16_Original ==
    [][ /\ SubmitDone => UNCHANGED <<_lowestBid, _lowestBidCalculated>>
        /\ FindDone => UNCHANGED <<_bids, _bidders>>
        /\ ~SubmitDone => UNCHANGED <<_bids, _bidders>>
        /\ ~FindDone => UNCHANGED <<_lowestBid, _lowestBidCalculated>> ]_vars

\* C16 (amended): the bids and the roster are changed only by submitBid;
\* _lowestBid is changed only by findLowestBid, which alone sets
\* _lowestBidCalculated; a submitBid leaves _lowestBid unchanged and resets
\* _lowestBidCalculated to false; findLowestBid leaves bids and roster
\* unchanged.
C16_FrameOfSubmitAndFind ==
    [][ /\ SubmitDone =>
              /\ UNCHANGED <<_lowestBid, _lowestBidder>>
              /\ ~_lowestBidCalculated'
        /\ FindDone => UNCHANGED <<_bids, _bidders>>
        /\ ~SubmitDone => UNCHANGED <<_bids, _bidders>>
        /\ ~FindDone =>
              /\ UNCHANGED <<_lowestBid, _lowestBidder>>
              /\ _lowestBidCalculated' => _lowestBidCalculated
        /\ (~SubmitDone /\ ~FindDone) => UNCHANGED ledger ]_vars

\* C16 witness: a submitBid came after a calculated minimum
C16_Witness ==
    /\ events # <<>>
    /\ Last(events).name = "BidSubmitted"
    /\ \E i \in 1..Len(events) : events[i].name = "LowestBidCalculated"
    /\ _lowestBid # NullHandle
    /\ ~_lowestBidCalculated

\* C17: the flag starts false, becomes true only by a successful
\* findLowestBid and false only by a successful submitBid; every successful
\* findLowestBid leaves it true; and there is no terminal state: a
\* findLowestBid called on a non-empty roster always succeeds, and a
\* submitBid called with an authentic input always succeeds.
C17_RunningMinimumMachine ==
    /\ ~_lowestBidCalculated
    /\ [][ /\ (_lowestBidCalculated' /\ ~_lowestBidCalculated) => FindDone
           /\ (_lowestBidCalculated /\ ~_lowestBidCalculated') => SubmitDone
           /\ FindDone => _lowestBidCalculated'
           /\ (lastCall'.op = "findLowestBid" /\ _bidders # <<>>
                  /\ (lastCall' # lastCall \/ events' # events)) =>
                 (lastCall'.err = "none" /\ FindDone)
           /\ (lastCall'.op = "submitBid" /\ lastCall'.valid
                  /\ (lastCall' # lastCall \/ events' # events)) =>
                 (lastCall'.err = "none" /\ SubmitDone) ]_vars

\* C17 witness: the cycle stale, computed, stale again
C17_Witness ==
    /\ Len(events) = 3
    /\ events[1].name = "BidSubmitted"
    /\ events[2].name = "LowestBidCalculated"
    /\ events[3].name = "BidSubmitted"
    /\ ~_lowestBidCalculated

\* C18: a successful submitBid by A leaves the bid of every other identity
\* unchanged and every previously listed identity at its roster position.
C18_SubmitTouchesOwnBidOnly ==
    [][ SubmitDone =>
            LET a == Last(events').who IN
            /\ \A b \in Accounts \ {a} : _bids'[b] = _bids[b]
            /\ Len(_bidders') >= Len(_bidders)
            /\ \A i \in 1..Len(_bidders) : _bidders'[i] = _bidders[i] ]_vars

\* C18 witness: an identity submitted while another had an older bid
C18_Witness ==
    /\ CallSucceeded("submitBid")
    /\ \E b \in Accounts \ {Last(events).who} :
          /\ _bids[b].exists
          /\ _bids[b].timestamp < _bids[Last(events).who].timestamp

IsPrefix(p, q) == Len(p) <= Len(q) /\ \A i \in 1..Len(p) : p[i] = q[i]

\* C19: nothing is removed: in every step the roster before is a prefix of
\* the roster after, and a bid that exists keeps existing.
C19_AppendOnly ==
    [][ /\ IsPrefix(_bidders, _bidders')
        /\ \A x \in Accounts : _bids[x].exists => _bids'[x].exists ]_vars

\* C19 witness: a roster of two whose first identity re-submitted last
C19_Witness ==
    /\ Len(_bidders) = 2
    /\ Len(events) = 3
    /\ Last(events) = BidSubmitted(_bidders[1], now)

\* C20: the identity that findLowestBid stores in _lowestBidder and emits
\* with LowestBidCalculated is the first roster entry, a function of the
\* roster order alone: it is the same whatever the bid prices are and
\* whichever entry holds the lowest price.
C20_IdentityIndependentOfPrices ==
    LET found == \E i \in 1..Len(events) :
                     events[i].name = "LowestBidCalculated"
    IN  /\ _lowestBidder = IF found THEN _bidders[1] ELSE ZeroAddress
        /\ \A i \in 1..Len(events) :
              events[i].name = "LowestBidCalculated" =>
                  events[i].who = _bidders[1]

\* C20 witness: the lowest price is held by the second entry only, the
\* identity written and emitted is still the first
C20_Witness ==
    /\ CallSucceeded("findLowestBid")
    /\ Len(_bidders) = 2
    /\ cts[_bids[_bidders[2]].encryptedPrice].val
          < cts[_bids[_bidders[1]].encryptedPrice].val
    /\ _lowestBidder = _bidders[1]
    /\ Last(events).who = _bidders[1]

C22_BiddersHoldGrant ==
    GetLowestBid[2] =>
        /\ <<GetLowestBid[1], organizer>> \in acl
        /\ \A i \in 1..Len(_bidders) : <<GetLowestBid[1], _bidders[i]>> \in acl

\* C24: whenever getLowestBid reports exists, its handle decrypts to the
\* minimum of the prices last submitted by the accounts that hold a bid.
C24_ExposedMinimumIsCurrent ==
    GetLowestBid[2] =>
        UserDecrypt(GetLowestBid[1], organizer)
            = Minimum({submitted[a] : a \in {b \in Accounts : HasBid(b)}})

\* C24 witness: the exposed minimum was computed after a re-submission that
\* raised a price, so an overwritten ciphertext is lower than the minimum
C24_Witness ==
    /\ GetLowestBid[2]
    /\ \E a \in Accounts : Cardinality(SubmissionsOf(a)) >= 2
    /\ \E h \in 1..Len(cts) :
          /\ cts[h].kind = "input"
          /\ cts[h].val < UserDecrypt(GetLowestBid[1], organizer)

C26_OneEventPerSuccess ==
    [][ /\ IsPrefix(events, events') /\ Len(events') <= Len(events) + 1
        /\ lastCall'.err # "none" => events' = events
        /\ (lastCall'.err = "none" /\ ledger' # ledger) =>
              /\ Len(events') = Len(events) + 1
              /\ Last(events').timestamp = now
              /\ lastCall'.op = "submitBid" =>
                    /\ Last(events').name = "BidSubmitted"
                    /\ \E a \in Accounts :
                          /\ _bids'[a] # _bids[a]
                          /\ Last(events').who = a
                          /\ Last(events').timestamp = _bids'[a].timestamp
              /\ lastCall'.op = "findLowestBid" =>
                    Last(events').name = "LowestBidCalculated" ]_vars

\* C26 witness: both notifications were emitted, in a later block, and the
\* most recent call reverted
C26_Witness ==
    /\ Len(events) = 2
    /\ events[1].name = "BidSubmitted"
    /\ events[2].name = "LowestBidCalculated"
    /\ events[2].timestamp > 1
    /\ lastCall.err # "none"

C27_ShownMinimumIsValid ==
    (lowestBid # None /\ lowestBid[1].exists) => GetLowestBid[2]

\* C28: once the organizer check started for the connected address has
\* settled, isOrganizer holds the result of that check: it was last set by a
\* closure holding the connected address, and it is true only if the
\* ledger's organizer is the connected address.
C28_FlagForCurrentAddress ==
    (mounted /\ address # Undefined /\ ethersProvider /\ address \notin checks) =>
        /\ setBy = address
        /\ isOrganizer => SameAddress(organizer, address)

\* C29: a retry timer that fires once the provider is set, the address has
\* changed or the component has unmounted does not schedule itself again.
C29_RetryStops ==
    [][ (polls' # polls /\ (ethersProvider \/ ~mounted \/ lastPoll' # address))
            => lastPoll' \notin timers' ]_vars

\* C30: whenever no call of submitBid / findLowestBid is in flight,
\* isLoading is false; a settled call resolved exactly if its transaction
\* was confirmed, and otherwise rejected with the very error that was
\* thrown.
C30_LoadingReleased ==
    /\ call.pc \in {"idle", "settled"} => ~isLoading
    /\ call.pc = "settled" =>
          /\ call.confirmed <=> call.result = "resolved"
          /\ ~call.confirmed =>
                (call.thrown # "none" /\ call.result = call.thrown)

\* C30 witness: gas estimation failed, the fixed amount was used, and the
\* transaction reverted on the ledger
C30_Witness ==
    /\ call.pc = "settled"
    /\ call.gas = "fallback"
    /\ call.result = "No bids submitted"
    /\ ~isLoading
    /\ message = <<"Error: ", "No bids submitted">>

====
